---- MODULE Spec2Model ----
(***************************************************************************)
(* FluxFile fast_fs: the directory walker (scandir_recursive), the         *)
(* single-file hasher (calculate_blake3), the batch hash scheduler         *)
(* (calculate_blake3_batch) and the metadata query (get_file_info),        *)
(* modelled from src/cpp_src/fast_fs.cpp.                                  *)
(*                                                                         *)
(* The specifications share the module, one per entry point:               *)
(*   SpecHash   one call of calculate_blake3                               *)
(*   SpecBatch  one call of calculate_blake3_batch (FairBatch: with the    *)
(*              fairness of OS threads)                                    *)
(*   SpecScan   one call of scandir_recursive                              *)
(*   SpecStat   two successive calls of get_file_info on one path          *)
(* The variables of the other entry points stay at their idle values.      *)
(***************************************************************************)
EXTENDS Integers, Sequences, FiniteSets, TLC

VARIABLES
    \* ---- calculate_blake3 (one call) ----
    h_file,        \* the file the path argument names (a FileState)
    chunk_size,    \* the chunk_size argument
    h_pc,          \* position in calculate_blake3
    h_stream,      \* the std::ifstream
    hasher,        \* the blake3_hasher: the bytes absorbed so far
    h_out,         \* what the call handed to its caller
    \* ---- calculate_blake3_batch (one call) ----
    file_paths,    \* the file_paths argument (a sequence of path ids)
    num_threads,   \* the num_threads argument, overwritten by lines 355-360
    b_pc,          \* position of the calling thread
    spawned,       \* threads started so far (threads.size())
    joined,        \* threads joined so far
    next_index,    \* std::atomic<size_t> next_index
    results,       \* std::vector<std::pair<string,string>> results
    errors,        \* std::vector<std::string> errors
    workers,       \* per thread: pc, idx, stream, hasher
    py_results,    \* the returned dict
    \* ---- scandir_recursive (one call) ----
    root_kind,     \* what root_path names
    root_fault,    \* how opening the root directory goes
    max_depth,     \* the max_depth argument
    include_hidden,\* the include_hidden argument
    hidden,        \* the entries whose name begins with '.'
    kind,          \* the type of every entry
    listing,       \* per directory, its entries in the order readdir yields them
    fault,         \* how the filesystem answers for every entry
    s_pc,          \* position in scandir_recursive
    it,            \* the recursive_directory_iterator: entry it points at
    visited,       \* the entries the loop body has run for, in order
    scan_results,  \* std::vector<FileInfo> results
    scan_errors,   \* std::vector<std::string> errors
    s_out,         \* what the call handed to its caller
    \* ---- get_file_info (two successive calls on one path) ----
    st_path,       \* what file_path names: link or not, what it resolves to
    st_ftime,      \* the file's modification time, on the file clock
    now,           \* the time, in clock ticks
    st_pc,         \* position in get_file_info
    st_file_now,   \* file_clock_now of the call in progress
    st_out,        \* what the call handed to its caller
    st_prev,       \* what the call before it handed to its caller
    st_calls       \* calls made so far

hash_vars  == <<h_file, chunk_size, h_pc, h_stream, hasher, h_out>>
batch_vars == <<file_paths, num_threads, b_pc, spawned,
                joined, next_index, results, errors, workers, py_results>>
scan_vars  == <<root_kind, root_fault, max_depth, include_hidden, hidden, kind, listing,
                fault, s_pc, it, visited, scan_results, scan_errors, s_out>>
stat_vars  == <<st_path, st_ftime, now, st_pc, st_file_now, st_out, st_prev, st_calls>>
vars == <<hash_vars, batch_vars, scan_vars, stat_vars>>

(***************************************************************************)
(* Bounds of the model.                                                    *)
(***************************************************************************)
MaxLen     == 3     \* longest file content, in bytes
MaxChunk   == 4     \* largest chunk_size argument tried
MaxPaths   == 2     \* longest file_paths list
MaxThreads == 2     \* largest num_threads argument / detected concurrency
TreeDepth  == 2     \* levels of the scanned tree
MaxHidden  == 1     \* most entries with a name beginning with '.'
MaxTicks   == 5     \* clock ticks that may pass during the two stat calls
MaxMtime   == 3     \* modification times of the stat'ed file: -MaxMtime..MaxMtime ticks
TicksPerSecond == 2 \* clock ticks in one whole second

(***************************************************************************)
(* Program constants.                                                      *)
(***************************************************************************)
BLAKE3_OUT_LEN        == 32
DefaultChunkSize      == 1048576
FallbackThreads       == 4

Min(a, b) == IF a < b THEN a ELSE b

(***************************************************************************)
(* The filesystem as the hashing code sees it.                             *)
(***************************************************************************)
ByteSet == {0, 171}
NoFail  == -1

RECURSIVE SeqsUpTo(_, _)
SeqsUpTo(S, n) ==
    IF n = 0 THEN {<<>>}
    ELSE LET shorter == SeqsUpTo(S, n - 1)
         IN  shorter \cup {Append(s, x) : s \in {t \in shorter : Len(t) = n - 1}, x \in S}

Contents == SeqsUpTo(ByteSet, MaxLen)

\* kind      what fs::exists / fs::is_regular_file answer for the path;
\*           "unexaminable": fs::status fails other than with ENOENT/ENOTDIR
\*           (ELOOP, EACCES on a parent, ENAMETOOLONG) and the call throws
\* can_open  whether std::ifstream opens it
\* fail_at   the byte offset at which the device fails a read (NoFail: never);
\*           an offset equal to the length fails the read that probes for EOF
\* content   the bytes of the file
FileState(k, o, f, c) == [kind |-> k, can_open |-> o, fail_at |-> f, content |-> c]

MissingFile == FileState("missing", FALSE, NoFail, <<>>)
UnexaminableFile == FileState("unexaminable", FALSE, NoFail, <<>>)

\* what() of the std::filesystem::filesystem_error thrown by fs::status
StatusError == "filesystem error: status"

\* A directory either does not open as a stream (open() refuses it) or opens
\* and fails its first read (EISDIR): both are what std::ifstream builds do.
FileStates ==
    {MissingFile, UnexaminableFile}
    \cup {FileState("regular", o, f, c) :
            o \in BOOLEAN, f \in {NoFail} \cup (0..MaxLen), c \in Contents}
    \cup {FileState("directory", FALSE, NoFail, <<>>),
          FileState("directory", TRUE, 0, <<>>)}
    \cup {FileState("other", TRUE, NoFail, c) : c \in Contents}

\* the read failure lies inside the file, and only an open file is read
FeasibleFile(f) ==
    /\ f.fail_at <= Len(f.content)
    /\ (~f.can_open => f.fail_at = NoFail)

HashFiles == {f \in FileStates : FeasibleFile(f)}

\* The paths handed to the batch scheduler name these files: a readable
\* regular file, a missing path, a directory (it opens, its read fails) and a
\* readable non-regular file (a device, a FIFO).
BatchFS ==
    <<FileState("regular", TRUE, NoFail, <<171, 0>>),
      MissingFile,
      FileState("directory", TRUE, 0, <<>>),
      FileState("other", TRUE, NoFail, <<>>)>>

PathIds == 1..Len(BatchFS)
NoPath  == 0

(***************************************************************************)
(* The hash primitive (blake3.h).  The hasher state is the input absorbed  *)
(* so far: update appends, finalize is a function of the whole input.      *)
(***************************************************************************)
blake3_hasher_init == <<>>

blake3_hasher_update(self, input) == self \o input

RECURSIVE Mix(_, _, _)
Mix(input, j, i) ==
    IF j > Len(input) THEN 0
    ELSE ((input[j] + 1) * (j + i) + Mix(input, j + 1, i)) % 256

blake3_hasher_finalize(self, out_len) ==
    [i \in 1..out_len |-> (Len(self) * 31 + i * 7 + Mix(self, 1, i)) % 256]

hex_chars == <<"0", "1", "2", "3", "4", "5", "6", "7",
               "8", "9", "a", "b", "c", "d", "e", "f">>

\* lines 330-335 / 425-430: two hex digits per output byte, high nibble first
HexEncode(output) ==
    [k \in 1..(2 * Len(output)) |->
        IF k % 2 = 1
        THEN hex_chars[((output[(k + 1) \div 2] \div 16) % 16) + 1]
        ELSE hex_chars[(output[k \div 2] % 16) + 1]]

(***************************************************************************)
(* std::ifstream.                                                          *)
(***************************************************************************)
ClosedStream == [open |-> FALSE, pos |-> 0, eof |-> FALSE, fail |-> FALSE,
                 bad |-> FALSE, gcount |-> 0]

\* std::ifstream file(path, std::ios::binary)
OpenStream(f) ==
    IF f.can_open THEN [ClosedStream EXCEPT !.open = TRUE]
    ELSE [ClosedStream EXCEPT !.fail = TRUE]

\* while (file): neither failbit nor badbit
StreamGood(st) == ~st.fail /\ ~st.bad

\* file.read(buffer, n); file.gcount()
StreamRead(st, f, n) ==
    IF f.fail_at # NoFail /\ st.pos <= f.fail_at /\ f.fail_at < st.pos + n
    THEN [st EXCEPT !.bad = TRUE, !.gcount = 0]
    ELSE LET got == Min(n, Len(f.content) - st.pos)
         IN  [st EXCEPT !.pos = st.pos + got,
                        !.gcount = got,
                        !.eof = (got < n),
                        !.fail = (got < n)]

\* the bytes the last read left in the buffer
BufferBytes(st, f) == SubSeq(f.content, st.pos - st.gcount + 1, st.pos)

\* One iteration of the read loop, on the pair <<stream, hasher>>.
ReadIterationDropsPartial(sh, f, n) ==
    LET st == StreamRead(sh[1], f, n)
    IN  <<st, IF st.gcount = n
              THEN blake3_hasher_update(sh[2], BufferBytes(st, f))
              ELSE sh[2]>>

ReadIteration(sh, f, n) ==
    LET st == StreamRead(sh[1], f, n)
    IN  <<st, IF st.gcount > 0
              THEN blake3_hasher_update(sh[2], BufferBytes(st, f))
              ELSE sh[2]>>

\* lines 327-335: finalize and render
HexDigest(h) == HexEncode(blake3_hasher_finalize(h, BLAKE3_OUT_LEN))

Digest(hex)  == [tag |-> "digest", val |-> hex]
Error(msg)   == [tag |-> "error", val |-> msg]
NoResult     == [tag |-> "none", val |-> ""]


(***************************************************************************)
(* calculate_blake3 (lines 263-340).                                       *)
(***************************************************************************)
HashIdle ==
    /\ h_file = MissingFile
    /\ chunk_size = 0
    /\ h_pc = "idle"
    /\ h_stream = ClosedStream
    /\ hasher = <<>>
    /\ h_out = NoResult

HashInit ==
    /\ h_file \in HashFiles
    /\ chunk_size \in 0..MaxChunk
    /\ h_pc = "check"
    /\ h_stream = ClosedStream
    /\ hasher = <<>>
    /\ h_out = NoResult

\* lines 268-276: fs::exists, fs::is_regular_file
HashCheck ==
    /\ h_pc = "check"
    /\ IF h_file.kind = "unexaminable"
       THEN h_pc' = "done" /\ h_out' = Error(StatusError)
       ELSE IF h_file.kind = "missing"
       THEN h_pc' = "done" /\ h_out' = Error("File does not exist")
       ELSE IF h_file.kind # "regular"
       THEN h_pc' = "done" /\ h_out' = Error("Path is not a regular file")
       ELSE h_pc' = "open" /\ h_out' = h_out
    /\ UNCHANGED <<h_file, chunk_size, h_stream, hasher, batch_vars, scan_vars, stat_vars>>

\* lines 294-305: init the hasher, open the stream
HashOpen ==
    /\ h_pc = "open"
    /\ hasher' = blake3_hasher_init
    /\ LET st == OpenStream(h_file)
       IN  IF ~st.open
           THEN h_stream' = ClosedStream /\ h_pc' = "done"
                /\ h_out' = Error("Cannot open file")
           ELSE h_stream' = st /\ h_pc' = "read" /\ h_out' = h_out
    /\ UNCHANGED <<h_file, chunk_size, batch_vars, scan_vars, stat_vars>>

\* lines 308-318: one iteration of while (file)
HashRead ==
    /\ h_pc = "read"
    /\ StreamGood(h_stream)
    /\ LET sh == ReadIteration(<<h_stream, hasher>>, h_file, chunk_size)
       IN  h_stream' = sh[1] /\ hasher' = sh[2]
    /\ UNCHANGED <<h_file, chunk_size, h_pc, h_out, batch_vars, scan_vars, stat_vars>>

\* lines 320-339: the loop has ended; bad() check, finalize, hex, return
HashFinish ==
    /\ h_pc = "read"
    /\ ~StreamGood(h_stream)
    /\ h_out' = IF h_stream.bad THEN Error("Error reading file")
                ELSE Digest(HexDigest(hasher))
    /\ h_stream' = [h_stream EXCEPT !.open = FALSE]
    /\ h_pc' = "done"
    /\ UNCHANGED <<h_file, chunk_size, hasher, batch_vars, scan_vars, stat_vars>>

HashNext == HashCheck \/ HashOpen \/ HashRead \/ HashFinish

\* calculate_blake3 as a function of the file: what the call hands back.
RECURSIVE ReadLoop(_, _, _)
ReadLoop(sh, f, n) ==
    IF StreamGood(sh[1]) THEN ReadLoop(ReadIteration(sh, f, n), f, n) ELSE sh

calculate_blake3(f, n) ==
    IF f.kind = "unexaminable" THEN Error(StatusError)
    ELSE IF f.kind = "missing" THEN Error("File does not exist")
    ELSE IF f.kind # "regular" THEN Error("Path is not a regular file")
    ELSE IF ~OpenStream(f).open THEN Error("Cannot open file")
    ELSE LET sh == ReadLoop(<<OpenStream(f), blake3_hasher_init>>, f, n)
         IN  IF sh[1].bad THEN Error("Error reading file")
             ELSE Digest(HexDigest(sh[2]))

(***************************************************************************)
(* calculate_blake3_batch (lines 351-472).                                 *)
(***************************************************************************)
IdleWorker == [pc |-> "unstarted", idx |-> 0, stream |-> ClosedStream, hasher |-> <<>>]

BatchIdle ==
    /\ file_paths = <<>>
    /\ num_threads = 0
    /\ b_pc = "idle"
    /\ spawned = 0
    /\ joined = 0
    /\ next_index = 0
    /\ results = <<>>
    /\ errors = <<>>
    /\ workers = <<>>
    /\ py_results = <<>>

BatchInit ==
    /\ file_paths \in SeqsUpTo(PathIds, MaxPaths)
    /\ num_threads \in (-1)..MaxThreads
    /\ b_pc = "start"
    /\ spawned = 0
    /\ joined = 0
    /\ next_index = 0
    /\ results = <<>>
    /\ errors = <<>>
    /\ workers = <<>>
    /\ py_results = <<>>

\* ResolveThreads without the fallback of line 359
ResolveThreadsNoFallback(requested, detected) ==
    IF requested <= 0 THEN detected ELSE requested

\* lines 355-360; detected is what std::thread::hardware_concurrency() returns
ResolveThreads(requested, detected) ==
    IF requested <= 0
    THEN (IF detected <= 0 THEN FallbackThreads ELSE detected)
    ELSE requested

\* lines 355-374: resolve the worker count, pre-size the slots
BatchStart ==
    /\ b_pc = "start"
    /\ \E detected \in 0..MaxThreads :
            num_threads' = ResolveThreads(num_threads, detected)
    /\ results' = [i \in 1..Len(file_paths) |-> <<NoPath, <<>>>>]
    /\ errors' = [i \in 1..Len(file_paths) |-> ""]
    /\ workers' = [t \in 1..num_threads' |-> IdleWorker]
    /\ next_index' = 0
    /\ b_pc' = "spawn"
    /\ UNCHANGED <<file_paths, spawned, joined, py_results,
                   hash_vars, scan_vars, stat_vars>>

\* lines 441-444: threads.emplace_back(worker)
BatchSpawn ==
    /\ b_pc = "spawn"
    /\ spawned < num_threads
    /\ spawned' = spawned + 1
    /\ workers' = [workers EXCEPT ![spawned + 1].pc = "claim"]
    /\ b_pc' = IF spawned + 1 < num_threads THEN "spawn" ELSE "join"
    /\ UNCHANGED <<file_paths, num_threads, joined,
                   next_index, results, errors, py_results,
                   hash_vars, scan_vars, stat_vars>>

\* BatchJoin without the wait for the thread to finish
BatchJoinNoWait ==
    /\ b_pc = "join"
    /\ joined < spawned
    /\ joined' = joined + 1
    /\ b_pc' = IF joined + 1 < spawned THEN "join" ELSE "build"
    /\ UNCHANGED <<file_paths, num_threads, spawned,
                   next_index, results, errors, workers, py_results,
                   hash_vars, scan_vars, stat_vars>>

\* lines 447-450: t.join() returns once thread t has finished
BatchJoin ==
    /\ b_pc = "join"
    /\ joined < spawned
    /\ workers[joined + 1].pc = "done"
    /\ joined' = joined + 1
    /\ b_pc' = IF joined + 1 < spawned THEN "join" ELSE "build"
    /\ UNCHANGED <<file_paths, num_threads, spawned,
                   next_index, results, errors, workers, py_results,
                   hash_vars, scan_vars, stat_vars>>

\* WorkerClaim with a cursor update that is lost while another worker is
\* between its own load and store (a plain size_t in place of the atomic)
WorkerClaimLostUpdate(t) ==
    /\ workers[t].pc = "claim"
    /\ next_index' = IF \E u \in DOMAIN workers : u # t /\ workers[u].pc = "open"
                     THEN next_index ELSE next_index + 1
    /\ workers' = [workers EXCEPT ![t] =
                     IF next_index >= Len(file_paths)
                     THEN [IdleWorker EXCEPT !.pc = "done"]
                     ELSE [IdleWorker EXCEPT !.pc = "open", !.idx = next_index]]
    /\ UNCHANGED <<file_paths, num_threads, b_pc, spawned,
                   joined, results, errors, py_results,
                   hash_vars, scan_vars, stat_vars>>

\* lines 383-389: claim the next index, stop when none is left
WorkerClaim(t) ==
    /\ workers[t].pc = "claim"
    /\ next_index' = next_index + 1
    /\ workers' = [workers EXCEPT ![t] =
                     IF next_index >= Len(file_paths)
                     THEN [IdleWorker EXCEPT !.pc = "done"]
                     ELSE [IdleWorker EXCEPT !.pc = "open", !.idx = next_index]]
    /\ UNCHANGED <<file_paths, num_threads, b_pc, spawned,
                   joined, results, errors, py_results,
                   hash_vars, scan_vars, stat_vars>>

\* the file a worker's claimed index names
WorkerFile(t) == BatchFS[file_paths[workers[t].idx + 1]]

\* WorkerOpen leaving the loop on an open failure (break for continue)
WorkerOpenBreaks(t) ==
    /\ workers[t].pc = "open"
    /\ LET st == OpenStream(WorkerFile(t))
       IN  IF ~st.open
           THEN /\ errors' = [errors EXCEPT ![workers[t].idx + 1] = "Cannot open file"]
                /\ workers' = [workers EXCEPT ![t].pc = "done"]
           ELSE /\ errors' = errors
                /\ workers' = [workers EXCEPT ![t].pc = "read",
                                              ![t].stream = st,
                                              ![t].hasher = blake3_hasher_init]
    /\ UNCHANGED <<file_paths, num_threads, b_pc, spawned,
                   joined, next_index, results, py_results,
                   hash_vars, scan_vars, stat_vars>>

\* lines 393-401: init the hasher, open the stream
WorkerOpen(t) ==
    /\ workers[t].pc = "open"
    /\ LET st == OpenStream(WorkerFile(t))
       IN  IF ~st.open
           THEN /\ errors' = [errors EXCEPT ![workers[t].idx + 1] = "Cannot open file"]
                /\ workers' = [workers EXCEPT ![t] = [IdleWorker EXCEPT !.pc = "claim"]]
           ELSE /\ errors' = errors
                /\ workers' = [workers EXCEPT ![t].pc = "read",
                                              ![t].stream = st,
                                              ![t].hasher = blake3_hasher_init]
    /\ UNCHANGED <<file_paths, num_threads, b_pc, spawned,
                   joined, next_index, results, py_results,
                   hash_vars, scan_vars, stat_vars>>

\* lines 403-412: one iteration of while (file)
WorkerRead(t) ==
    /\ workers[t].pc = "read"
    /\ StreamGood(workers[t].stream)
    /\ LET sh == ReadIteration(<<workers[t].stream, workers[t].hasher>>,
                               WorkerFile(t), DefaultChunkSize)
       IN  workers' = [workers EXCEPT ![t].stream = sh[1], ![t].hasher = sh[2]]
    /\ UNCHANGED <<file_paths, num_threads, b_pc, spawned,
                   joined, next_index, results, errors, py_results,
                   hash_vars, scan_vars, stat_vars>>

\* WorkerFinish going on to finalize after a failed read (no continue)
WorkerFinishNoContinue(t) ==
    /\ workers[t].pc = "read"
    /\ ~StreamGood(workers[t].stream)
    /\ errors' = IF workers[t].stream.bad
                 THEN [errors EXCEPT ![workers[t].idx + 1] = "Error reading file"]
                 ELSE errors
    /\ results' = [results EXCEPT ![workers[t].idx + 1] =
                     <<file_paths[workers[t].idx + 1], HexDigest(workers[t].hasher)>>]
    /\ workers' = [workers EXCEPT ![t] = [IdleWorker EXCEPT !.pc = "claim"]]
    /\ UNCHANGED <<file_paths, num_threads, b_pc, spawned,
                   joined, next_index, py_results,
                   hash_vars, scan_vars, stat_vars>>

\* WorkerFinish with a stream that outlives the loop iteration
WorkerFinishKeepsOpen(t) ==
    /\ workers[t].pc = "read"
    /\ ~StreamGood(workers[t].stream)
    /\ IF workers[t].stream.bad
       THEN /\ errors' = [errors EXCEPT ![workers[t].idx + 1] = "Error reading file"]
            /\ results' = results
       ELSE /\ results' = [results EXCEPT ![workers[t].idx + 1] =
                             <<file_paths[workers[t].idx + 1], HexDigest(workers[t].hasher)>>]
            /\ errors' = errors
    /\ workers' = [workers EXCEPT ![t].pc = "claim"]
    /\ UNCHANGED <<file_paths, num_threads, b_pc, spawned,
                   joined, next_index, py_results,
                   hash_vars, scan_vars, stat_vars>>

\* lines 414-431: bad() check, finalize, hex, write the slot; the iteration
\* ends and its locals (idx, hasher, file) go out of scope
WorkerFinish(t) ==
    /\ workers[t].pc = "read"
    /\ ~StreamGood(workers[t].stream)
    /\ IF workers[t].stream.bad
       THEN /\ errors' = [errors EXCEPT ![workers[t].idx + 1] = "Error reading file"]
            /\ results' = results
       ELSE /\ results' = [results EXCEPT ![workers[t].idx + 1] =
                             <<file_paths[workers[t].idx + 1], HexDigest(workers[t].hasher)>>]
            /\ errors' = errors
    /\ workers' = [workers EXCEPT ![t] = [IdleWorker EXCEPT !.pc = "claim"]]
    /\ UNCHANGED <<file_paths, num_threads, b_pc, spawned,
                   joined, next_index, py_results,
                   hash_vars, scan_vars, stat_vars>>

\* BuildDict storing nothing for an index without a digest
RECURSIVE BuildDictOmitsErrors(_, _, _, _)
BuildDictOmitsErrors(paths, res, errs, i) ==
    IF i = 0 THEN <<>>
    ELSE LET d == BuildDictOmitsErrors(paths, res, errs, i - 1)
             ok == errs[i] = "" /\ res[i][2] # <<>>
         IN  IF ok
             THEN [k \in (DOMAIN d) \cup {res[i][1]} |->
                     IF k = res[i][1] THEN Digest(res[i][2]) ELSE d[k]]
             ELSE d

\* lines 455-469: the dict after entries 1..i have been stored
RECURSIVE BuildDict(_, _, _, _)
BuildDict(paths, res, errs, i) ==
    IF i = 0 THEN <<>>
    ELSE LET d == BuildDict(paths, res, errs, i - 1)
             ok == errs[i] = "" /\ res[i][2] # <<>>
             key == IF ok THEN res[i][1] ELSE paths[i]
             val == IF ok THEN Digest(res[i][2])
                    ELSE Error(IF errs[i] = "" THEN "Unknown error" ELSE errs[i])
         IN  [k \in (DOMAIN d) \cup {key} |-> IF k = key THEN val ELSE d[k]]

\* lines 455-471: build and return the dict
BatchBuild ==
    /\ b_pc = "build"
    /\ py_results' = BuildDict(file_paths, results, errors, Len(file_paths))
    /\ b_pc' = "returned"
    /\ UNCHANGED <<file_paths, num_threads, spawned, joined,
                   next_index, results, errors, workers,
                   hash_vars, scan_vars, stat_vars>>


BatchNext ==
    \/ BatchStart
    \/ BatchSpawn
    \/ BatchJoin
    \/ BatchBuild
    \/ \E t \in DOMAIN workers : WorkerClaim(t)
    \/ \E t \in DOMAIN workers : WorkerOpen(t)
    \/ \E t \in DOMAIN workers : WorkerRead(t)
    \/ \E t \in DOMAIN workers : WorkerFinish(t)

(***************************************************************************)
(* The directory tree scandir_recursive walks.  Level k (1..TreeDepth)     *)
(* holds a directory 2k-1 and a leaf 2k, both children of the directory    *)
(* of level k-1 (the root, 0, for level 1); the order in which a directory *)
(* lists the two is not fixed.                                             *)
(***************************************************************************)
Root  == 0
End   == 0     \* the end iterator
Nodes == 1..(2 * TreeDepth)

Level(n)  == (n + 1) \div 2           \* nesting depth below the root, from 1
Parent(n) == IF Level(n) = 1 THEN Root ELSE 2 * Level(n) - 3
ItDepth(n) == Level(n) - 1            \* recursive_directory_iterator::depth()

Children(p) == {n \in Nodes : Parent(n) = p}

\* The order of a directory's entries is the filesystem's choice: each
\* directory lists its subdirectory first, or its leaf first.
ListedDirs == {Root} \cup {n \in Nodes : Children(n) # {}}
DirOf(p)  == CHOOSE n \in Children(p) : n % 2 = 1
LeafOf(p) == CHOOSE n \in Children(p) : n % 2 = 0
ListingWith(leaf_first) ==
    [p \in ListedDirs |-> IF p \in leaf_first THEN <<LeafOf(p), DirOf(p)>>
                                              ELSE <<DirOf(p), LeafOf(p)>>]
SortedListing == ListingWith({})

\* the entry a directory's listing starts with, and an entry's place in the
\* listing of its directory
FirstListed(p) == listing[p][1]
ListedAt(n) == CHOOSE i \in DOMAIN listing[Parent(n)] : listing[Parent(n)][i] = n

RECURSIVE Ancestors(_)
Ancestors(n) == IF Parent(n) = Root THEN {} ELSE {Parent(n)} \cup Ancestors(Parent(n))

DefaultKind(n) == IF n % 2 = 1 THEN "dir" ELSE "file"
Leaves == {n \in Nodes : Children(n) = {}}

\* What may be unusual about an entry:
\*   symlink_file / symlink_dir / symlink_dangling   the entry is a symbolic link
\*   symlink_unexaminable   a symbolic link whose target cannot be examined
\*            (a link to itself, a link into an unsearchable directory)
\*   stat     file_size() / last_write_time() of the entry throws; readdir
\*            reported the entry's type, so the type queries do not stat
\*   status   readdir reported no type (DT_UNKNOWN) and stat of the entry fails
\*   denied   opening the directory fails with EACCES
\*   step     opening the directory fails with another error
Anomalies ==
    {[node |-> 0, what |-> "none"]}
    \cup {[node |-> n, what |-> w] :
            n \in Leaves, w \in {"symlink_file", "symlink_dir", "symlink_dangling",
                                 "symlink_unexaminable"}}
    \cup {[node |-> n, what |-> w] : n \in Nodes, w \in {"stat", "status"}}
    \cup {[node |-> n, what |-> w] :
            n \in {m \in Nodes : DefaultKind(m) = "dir"}, w \in {"denied", "step"}}

KindWith(a) ==
    [n \in Nodes |-> IF a.node = n /\ a.what \in {"symlink_file", "symlink_dir", "symlink_dangling",
                                                    "symlink_unexaminable"}
                     THEN a.what ELSE DefaultKind(n)]
FaultWith(a) ==
    [n \in Nodes |-> IF a.node = n /\ a.what \in {"stat", "status", "denied", "step"}
                     THEN a.what ELSE "none"]

\* directory_entry queries
IsSymlink(n)   == kind[n] \in {"symlink_file", "symlink_dir", "symlink_dangling",
                              "symlink_unexaminable"}
\* is_directory() has to stat the entry when readdir gave no type or the
\* entry is a link, and throws when that stat fails other than with ENOENT
StatusThrows(n) == fault[n] = "status" \/ kind[n] = "symlink_unexaminable"
IsDirectory(n) == kind[n] \in {"dir", "symlink_dir"}      \* follows the link
FileSize(n)    == IF kind[n] = "file" THEN n ELSE 0        \* an entry's bytes
\* one of the queries of lines 176-204 throws filesystem_error
StatThrows(n)  == StatusThrows(n) \/ fault[n] = "stat" \/ kind[n] = "symlink_dangling"

(***************************************************************************)
(* scandir_recursive (lines 111-239).                                      *)
(***************************************************************************)
ScanIdle ==
    /\ root_kind = "missing"
    /\ root_fault = "none"
    /\ max_depth = 0
    /\ include_hidden = FALSE
    /\ hidden = {}
    /\ kind = <<>>
    /\ listing = <<>>
    /\ fault = <<>>
    /\ s_pc = "idle"
    /\ it = 0
    /\ visited = <<>>
    /\ scan_results = <<>>
    /\ scan_errors = <<>>
    /\ s_out = NoResult

ScanInit ==
    /\ root_kind \in {"missing", "unexaminable", "file", "dir"}
    /\ root_fault \in {"none", "denied", "step"}
    /\ max_depth \in 0..TreeDepth
    /\ include_hidden \in BOOLEAN
    /\ hidden \in {S \in SUBSET Nodes : Cardinality(S) <= MaxHidden}
    /\ \E a \in Anomalies : kind = KindWith(a) /\ fault = FaultWith(a)
    /\ \E leaf_first \in SUBSET ListedDirs : listing = ListingWith(leaf_first)
    /\ (root_kind # "dir" => root_fault = "none")
    /\ (root_kind # "dir" \/ root_fault # "none" =>
            /\ hidden = {} /\ listing = SortedListing
            /\ \A n \in Nodes : kind[n] = DefaultKind(n) /\ fault[n] = "none")
    /\ s_pc = "check"
    /\ it = End
    /\ visited = <<>>
    /\ scan_results = <<>>
    /\ scan_errors = <<>>
    /\ s_out = NoResult

\* ScanCheck without the fs::is_directory test
ScanCheckNoDirTest ==
    /\ s_pc = "check"
    /\ IF root_kind = "unexaminable"
       THEN s_pc' = "done" /\ s_out' = Error(StatusError)
       ELSE IF root_kind = "missing"
       THEN s_pc' = "done" /\ s_out' = Error("Path does not exist")
       ELSE s_pc' = "open" /\ s_out' = s_out
    /\ UNCHANGED <<root_kind, root_fault, max_depth, include_hidden, hidden, kind, listing,
                   fault, it, visited, scan_results, scan_errors, hash_vars, batch_vars, stat_vars>>

\* lines 116-125: fs::exists(root), fs::is_directory(root); fs::status throws
\* for a root that cannot be examined, outside every try block
ScanCheck ==
    /\ s_pc = "check"
    /\ IF root_kind = "unexaminable"
       THEN s_pc' = "done" /\ s_out' = Error(StatusError)
       ELSE IF root_kind = "missing"
       THEN s_pc' = "done" /\ s_out' = Error("Path does not exist")
       ELSE IF root_kind # "dir"
       THEN s_pc' = "done" /\ s_out' = Error("Path is not a directory")
       ELSE s_pc' = "open" /\ s_out' = s_out
    /\ UNCHANGED <<root_kind, root_fault, max_depth, include_hidden, hidden, kind, listing,
                   fault, it, visited, scan_results, scan_errors, hash_vars, batch_vars, stat_vars>>

Diagnostic(n)  == [entry |-> n, fatal |-> FALSE]     \* errors.push_back(e.what())
FatalError(n)  == [entry |-> n, fatal |-> TRUE]      \* "Fatal error: " + e.what()

\* line 148: fs::recursive_directory_iterator(root, skip_permission_denied)
ScanOpen ==
    /\ s_pc = "open"
    /\ IF root_fault = "step"
       THEN /\ scan_errors' = Append(scan_errors, FatalError(Root))
            /\ it' = End
            /\ s_pc' = "finish"
       ELSE /\ scan_errors' = scan_errors
            /\ it' = IF root_fault = "denied" THEN End ELSE FirstListed(Root)
            /\ s_pc' = "iterate"
    /\ UNCHANGED <<root_kind, root_fault, max_depth, include_hidden, hidden, kind, listing,
                   fault, visited, scan_results, s_out, hash_vars, batch_vars, stat_vars>>

\* lines 158-163: the entry lies at or beyond the depth limit
DepthSkip(n) == max_depth > 0 /\ ItDepth(n) >= max_depth

\* lines 165-174: the entry is hidden and hidden entries are excluded
HiddenSkipIgnoresFlag(n) == n \in hidden
HiddenSkip(n) == ~include_hidden /\ n \in hidden

\* whether the loop body leaves the recursion pending (lines 161, 169-172)
PendingAfterNoPrune(n) == ~DepthSkip(n)
\* PendingAfter with the is_directory test of line 169 inverted
PendingAfterFilesOnly(n) ==
    /\ ~DepthSkip(n)
    /\ ~(HiddenSkip(n) /\ ~StatusThrows(n) /\ ~IsDirectory(n))
\* a throwing is_directory() leaves line 171 unexecuted
PendingAfter(n) ==
    /\ ~DepthSkip(n)
    /\ ~(HiddenSkip(n) /\ ~StatusThrows(n) /\ IsDirectory(n))

\* lines 176-204: the FileInfo of an entry
FileInfoOf(n) ==
    [path |-> n,
     name |-> n,
     size |-> IF IsSymlink(n) THEN 0 ELSE IF IsDirectory(n) THEN 0 ELSE FileSize(n),
     is_directory |-> IsDirectory(n),
     is_symlink |-> IsSymlink(n)]

\* operator++ moving past n without entering it: the next entry of the
\* directory, or of the nearest ancestor that has one left
RECURSIVE Advance(_)
Advance(n) ==
    IF ListedAt(n) < Len(listing[Parent(n)])
    THEN listing[Parent(n)][ListedAt(n) + 1]
    ELSE IF Parent(n) = Root THEN End
    ELSE Advance(Parent(n))

\* operator++ : enters n when the recursion is pending and n is a directory
\* (a symlink is not followed, and neither is an entry whose type the
\* iterator cannot find out); "throw" when opening it fails other than EACCES
Increment(n, pending) ==
    IF pending /\ kind[n] = "dir" /\ fault[n] # "status"
    THEN IF fault[n] = "step" THEN [threw |-> TRUE, to |-> End]
         ELSE IF fault[n] = "denied" \/ Children(n) = {}
         THEN [threw |-> FALSE, to |-> Advance(n)]
         ELSE [threw |-> FALSE, to |-> FirstListed(n)]
    ELSE [threw |-> FALSE, to |-> Advance(n)]

\* lines 148-218: the loop body for the entry the iterator points at, then ++it
ScanEntry ==
    /\ s_pc = "iterate"
    /\ it # End
    /\ visited' = Append(visited, it)
    /\ LET skip == DepthSkip(it) \/ HiddenSkip(it)
           \* line 169 queries the hidden entry before the continue
           threw == IF DepthSkip(it) THEN FALSE
                    ELSE IF HiddenSkip(it) THEN StatusThrows(it)
                    ELSE StatThrows(it)
           diag == IF threw
                   THEN Append(scan_errors, Diagnostic(it)) ELSE scan_errors
           nxt  == Increment(it, PendingAfter(it))
       IN  /\ scan_results' = IF ~skip /\ ~StatThrows(it)
                              THEN Append(scan_results, FileInfoOf(it))
                              ELSE scan_results
           /\ IF nxt.threw
              THEN /\ scan_errors' = Append(diag, FatalError(it))
                   /\ it' = End
                   /\ s_pc' = "finish"
              ELSE /\ scan_errors' = diag
                   /\ it' = nxt.to
                   /\ s_pc' = s_pc
    /\ UNCHANGED <<root_kind, root_fault, max_depth, include_hidden, hidden, kind, listing,
                   fault, s_out, hash_vars, batch_vars, stat_vars>>

\* line 149: the iterator has reached the end
ScanLoopEnd ==
    /\ s_pc = "iterate"
    /\ it = End
    /\ s_pc' = "finish"
    /\ UNCHANGED <<root_kind, root_fault, max_depth, include_hidden, hidden, kind, listing,
                   fault, it, visited, scan_results, scan_errors, s_out,
                   hash_vars, batch_vars, stat_vars>>

\* lines 222-238: rethrow a fatal error, else return the records
ScanFinish ==
    /\ s_pc = "finish"
    /\ s_out' = IF \E i \in 1..Len(scan_errors) : scan_errors[i].fatal
                THEN Error("Fatal error")
                ELSE [tag |-> "returned", val |-> scan_results]
    /\ s_pc' = "done"
    /\ UNCHANGED <<root_kind, root_fault, max_depth, include_hidden, hidden, kind, listing,
                   fault, it, visited, scan_results, scan_errors, hash_vars, batch_vars, stat_vars>>

ScanNext == ScanCheck \/ ScanOpen \/ ScanEntry \/ ScanLoopEnd \/ ScanFinish

(***************************************************************************)
(* get_file_info (lines 480-563).  The path is stat'ed twice in a row, the  *)
(* file left alone, while the clocks run.                                  *)
(***************************************************************************)
TargetKinds == {"regular", "directory", "block", "character", "fifo", "socket"}

\* link: the path itself is a symbolic link; target: what it resolves to
\* ("missing": nothing, a dangling link when link holds; "unexaminable":
\* fs::status fails other than with ENOENT/ENOTDIR)
PathStates ==
    [link : BOOLEAN, target : TargetKinds \cup {"missing", "unexaminable"}, size : {0, 1},
     perms : {{}, {"owner_read"}, {"owner_read", "owner_write", "owner_exec"}}]

StatIdle ==
    /\ st_path = [link |-> FALSE, target |-> "missing", size |-> 0, perms |-> {}]
    /\ st_ftime = 0
    /\ now = 0
    /\ st_pc = "idle"
    /\ st_file_now = 0
    /\ st_out = NoResult
    /\ st_prev = NoResult
    /\ st_calls = 0

StatInit ==
    /\ st_path \in PathStates
    /\ (st_path.target # "regular" => st_path.size = 0)
    /\ (st_path.target \in {"missing", "unexaminable"} => st_path.perms = {})
    /\ st_ftime \in (-MaxMtime)..MaxMtime
    /\ now = MaxMtime
    /\ st_pc = "check"
    /\ st_file_now = 0
    /\ st_out = NoResult
    /\ st_prev = NoResult
    /\ st_calls = 1

\* lines 511-518 with the symlink_status in place of the status
TypeFlagsOfLink(p) ==
    [is_regular_file   |-> ~p.link /\ p.target = "regular",
     is_directory      |-> ~p.link /\ p.target = "directory",
     is_symlink        |-> p.link,
     is_block_file     |-> ~p.link /\ p.target = "block",
     is_character_file |-> ~p.link /\ p.target = "character",
     is_fifo           |-> ~p.link /\ p.target = "fifo",
     is_socket         |-> ~p.link /\ p.target = "socket"]

\* lines 502-518: fs::status follows the link, fs::symlink_status does not
TypeFlags(p) ==
    [is_regular_file   |-> p.target = "regular",
     is_directory      |-> p.target = "directory",
     is_symlink        |-> p.link,
     is_block_file     |-> p.target = "block",
     is_character_file |-> p.target = "character",
     is_fifo           |-> p.target = "fifo",
     is_socket         |-> p.target = "socket"]

\* std::chrono::time_point_cast<seconds>: the quotient truncated toward zero
TimePointCast(ticks) ==
    IF ticks >= 0 THEN ticks \div TicksPerSecond
    ELSE -((-ticks) \div TicksPerSecond)

\* lines 200-201 / 530-531: sys_clock_now + (ftime - file_clock_now), cast to
\* whole seconds
ReconcileMtime(ftime, file_clock_now, sys_clock_now) ==
    TimePointCast(sys_clock_now + (ftime - file_clock_now))

\* lines 520-563: size, permissions and the dict, given the reconciled mtime
FileInfoDict(p, mtime) ==
    [flags |-> TypeFlags(p),
     size |-> IF p.target = "regular" THEN p.size ELSE 0,
     mtime |-> mtime,
     is_readable |-> "owner_read" \in p.perms,
     is_writable |-> "owner_write" \in p.perms,
     is_executable |-> "owner_exec" \in p.perms]

\* lines 484-487: fs::exists(path) follows the link, and throws when the
\* status of the path cannot be determined
StatCheck ==
    /\ st_pc = "check"
    /\ IF st_path.target = "unexaminable"
       THEN st_pc' = "done" /\ st_out' = Error(StatusError)
       ELSE IF st_path.target = "missing"
       THEN st_pc' = "done" /\ st_out' = Error("Path does not exist")
       ELSE st_pc' = "file_clock" /\ st_out' = st_out
    /\ UNCHANGED <<st_path, st_ftime, now, st_file_now, st_prev, st_calls,
                   hash_vars, batch_vars, scan_vars>>

\* lines 502-528: status, type flags, size, last_write_time, then
\* file_clock::now()
StatFileClock ==
    /\ st_pc = "file_clock"
    /\ st_file_now' = now
    /\ st_pc' = "sys_clock"
    /\ UNCHANGED <<st_path, st_ftime, now, st_out, st_prev, st_calls,
                   hash_vars, batch_vars, scan_vars>>

\* lines 529-562: system_clock::now(), the reconciled mtime, permissions,
\* the dict
StatSysClock ==
    /\ st_pc = "sys_clock"
    /\ st_out' = [tag |-> "info",
                  val |-> FileInfoDict(st_path, ReconcileMtime(st_ftime, st_file_now, now))]
    /\ st_pc' = "done"
    /\ UNCHANGED <<st_path, st_ftime, now, st_file_now, st_prev, st_calls,
                   hash_vars, batch_vars, scan_vars>>

\* the clocks advance by one tick, at any point of a call or between calls
StatTick ==
    /\ st_pc # "idle"
    /\ now < MaxMtime + MaxTicks
    /\ now' = now + 1
    /\ UNCHANGED <<st_path, st_ftime, st_pc, st_file_now, st_out, st_prev, st_calls,
                   hash_vars, batch_vars, scan_vars>>

\* the caller stats the same path again
StatAgain ==
    /\ st_pc = "done"
    /\ st_calls = 1
    /\ st_prev' = st_out
    /\ st_out' = NoResult
    /\ st_calls' = 2
    /\ st_pc' = "check"
    /\ UNCHANGED <<st_path, st_ftime, now, st_file_now,
                   hash_vars, batch_vars, scan_vars>>

StatNext == StatCheck \/ StatFileClock \/ StatSysClock \/ StatTick \/ StatAgain

\* one call of one entry point; the locals of the others stay idle
ScanStart  == ScanInit /\ HashIdle /\ BatchIdle /\ StatIdle
HashStart  == HashInit /\ BatchIdle /\ ScanIdle /\ StatIdle
BatchStartState == BatchInit /\ HashIdle /\ ScanIdle /\ StatIdle
StatStart  == StatInit /\ HashIdle /\ BatchIdle /\ ScanIdle
\* one call of either hashing entry point
HashingStart ==
    /\ (HashInit /\ BatchIdle) \/ (BatchInit /\ HashIdle)
    /\ ScanIdle
    /\ StatIdle

SpecScan  == ScanStart /\ [][ScanNext]_vars
SpecHash  == HashStart /\ [][HashNext]_vars
SpecBatch == BatchStartState /\ [][BatchNext]_vars
SpecStat  == StatStart /\ [][StatNext]_vars
SpecHashing == HashingStart /\ [][HashNext \/ BatchNext]_vars

\* the calling thread keeps running: a call that can take a step takes one
FairHash == SpecHash /\ WF_vars(HashNext)

\* OS threads: as long as some thread of the call can run, one of them does
FairBatch == SpecBatch /\ WF_vars(BatchNext)

(***************************************************************************)
(* Properties of calculate_blake3_batch.                                   *)
(***************************************************************************)
Range(seq) == {seq[i] : i \in 1..Len(seq)}
Distinct(seq) == \A i, j \in 1..Len(seq) : i # j => seq[i] # seq[j]

\* the file fails to open or to be read to its end
FailsToOpenOrRead(f) == ~f.can_open \/ f.fail_at # NoFail

\* C1: the returned mapping has exactly one entry per input path: its keys
\* are the input paths, none missing and none foreign, so N pairwise-distinct
\* paths give N entries and a repeated path gives a single entry.
C1_OneEntryPerPath ==
    b_pc = "returned" =>
        /\ DOMAIN py_results = Range(file_paths)
        /\ (Distinct(file_paths) => Cardinality(DOMAIN py_results) = Len(file_paths))

\* C1 witness: two distinct paths, hashed by two or more threads, both present.
C1_Witness ==
    /\ b_pc = "returned"
    /\ Len(file_paths) = 2
    /\ Distinct(file_paths)
    /\ num_threads >= 2
    /\ Cardinality(DOMAIN py_results) = 2

\* C2: the call returns a mapping in which exactly the paths that are missing
\* or fail to open or read carry an error, and every other path carries the
\* digest of its own content, whatever happened at the other indices.
C2_FailuresAreIsolated ==
    b_pc = "returned" =>
        \A i \in 1..Len(file_paths) :
            LET f == BatchFS[file_paths[i]]
                r == py_results[file_paths[i]]
            IN  IF FailsToOpenOrRead(f)
                THEN r.tag = "error"
                ELSE r = Digest(HexDigest(f.content))

\* C2 witness: a missing path next to a readable one, each with its own result.
C2_Witness ==
    /\ b_pc = "returned"
    /\ Len(file_paths) = 2
    /\ BatchFS[file_paths[1]].kind = "missing"
    /\ py_results[file_paths[1]].tag = "error"
    /\ BatchFS[file_paths[2]].kind = "regular"
    /\ py_results[file_paths[2]].tag = "digest"

\* C3: for every path, the batch result agrees with calculate_blake3 on that
\* path alone: a digest exactly when the single call succeeds, and the same.
C3_BatchAgreesWithSingle ==
    b_pc = "returned" =>
        \A i \in 1..Len(file_paths) :
            LET single == calculate_blake3(BatchFS[file_paths[i]], DefaultChunkSize)
                r == py_results[file_paths[i]]
            IN  /\ r.tag = single.tag
                /\ (single.tag = "digest" => r.val = single.val)

\* every index has been claimed and its digest slot or error slot written
AllProcessed ==
    /\ next_index >= Len(file_paths)
    /\ \A i \in 1..Len(file_paths) : errors[i] # "" \/ results[i][2] # <<>>

AllWorkersDone ==
    /\ spawned = num_threads
    /\ \A t \in DOMAIN workers : workers[t].pc = "done"

\* C4: the mapping is built and returned only after every worker thread has
\* terminated with every index claimed and processed, and under fair
\* scheduling the call eventually returns.
C4_ReturnsAfterAllWorkers ==
    /\ [](b_pc \in {"build", "returned"} => AllWorkersDone /\ AllProcessed)
    /\ <>(b_pc = "returned")

\* C4 witness: a returned call of two threads over two paths.
C4_Witness ==
    /\ b_pc = "returned"
    /\ num_threads >= 2
    /\ Len(file_paths) = 2
    /\ AllWorkersDone
    /\ AllProcessed

\* a string of 2 * BLAKE3_OUT_LEN lowercase hexadecimal digits
IsHexDigest(hex) ==
    /\ Len(hex) = 2 * BLAKE3_OUT_LEN
    /\ \A i \in 1..Len(hex) : hex[i] \in Range(hex_chars)

\* C12: no slot ever holds both a digest and an error; once every index is
\* processed each slot holds exactly one of them; every value of the returned
\* mapping is either a digest of 64 lowercase hex digits or a non-empty error.
C12_ExactlyOneOfDigestAndError ==
    /\ \A i \in 1..Len(results) : ~(results[i][2] # <<>> /\ errors[i] # "")
    /\ (b_pc \in {"build", "returned"} =>
            \A i \in 1..Len(file_paths) : results[i][2] # <<>> \/ errors[i] # "")
    /\ \A i \in 1..Len(results) : results[i][2] # <<>> => IsHexDigest(results[i][2])
    /\ (b_pc = "returned" =>
            \A p \in DOMAIN py_results :
                \/ py_results[p].tag = "digest" /\ IsHexDigest(py_results[p].val)
                \/ py_results[p].tag = "error" /\ py_results[p].val # "")

\* C12 witness: a returned mapping with a digest for one path and an error
\* for another, the second one from a failed read.
C12_Witness ==
    /\ b_pc = "returned"
    /\ \E p, q \in DOMAIN py_results :
            /\ py_results[p].tag = "digest" /\ Len(py_results[p].val) = 64
            /\ py_results[q] = Error("Error reading file")

\* the workers that hold a claimed index whose slot they have yet to write
Active == {t \in DOMAIN workers : workers[t].pc \in {"open", "read"}}
Written == {i \in 1..Len(results) : results[i][2] # <<>> \/ errors[i] # ""}

\* C14: the indices handed out by the cursor are 0, 1, ... each to one worker:
\* no two workers hold the same index, the indices handed out so far are
\* exactly those written or held, and a slot is written only while empty and
\* only by the one worker that holds its index.
C14_SlotOwnership ==
    /\ [](/\ \A t, u \in Active : t # u => workers[t].idx # workers[u].idx
          /\ \A t \in Active : workers[t].idx < Min(next_index, Len(file_paths))
          /\ \A t \in Active : (workers[t].idx + 1) \notin Written
          /\ (b_pc \in {"spawn", "join", "build", "returned"} =>
                 Cardinality(Written) + Cardinality(Active)
                     = Min(next_index, Len(file_paths))))
    /\ [][\A i \in 1..Len(results) :
             results'[i] # results[i] \/ errors'[i] # errors[i] =>
                 /\ i \notin Written
                 /\ Cardinality({t \in Active : workers[t].idx = i - 1}) = 1]_vars

\* C14 witness: two workers at once, each reading the file of its own index,
\* out of more workers than there are paths.
C14_Witness ==
    /\ num_threads > Len(file_paths)
    /\ \E t, u \in DOMAIN workers :
           /\ workers[t].pc = "read" /\ workers[u].pc = "read"
           /\ workers[t].idx = 0 /\ workers[u].idx = 1

\* C19: the step that resolves the worker count keeps a positive request and
\* turns any other request into the detected concurrency, or into 4 when none
\* is detected, so the count is at least 1; exactly that many threads are
\* started before the first join, whatever the length of the path list.
C19_WorkerCount ==
    /\ [][b_pc = "start" /\ b_pc' # "start" =>
             /\ num_threads' >= 1
             /\ (num_threads > 0 => num_threads' = num_threads)
             /\ (num_threads <= 0 =>
                    \E detected \in 0..MaxThreads :
                        num_threads' = IF detected = 0 THEN 4 ELSE detected)
             /\ Len(workers') = num_threads']_vars
    /\ [](b_pc \in {"join", "build", "returned"} =>
             /\ spawned = num_threads
             /\ Len(workers) = num_threads
             /\ \A t \in DOMAIN workers : workers[t].pc # "unstarted")

\* C19 witness: no count requested, none detected, no paths: four workers
\* were started and the call has returned.
C19_Witness ==
    /\ b_pc = "returned"
    /\ file_paths = <<>>
    /\ num_threads = 4
    /\ spawned = 4
    /\ \A t \in 1..4 : workers[t].pc = "done"

(***************************************************************************)
(* Properties of calculate_blake3.                                         *)
(***************************************************************************)
\* C10: whatever the positive chunk size, the chunks fed to update are, in
\* order, exactly the bytes of the file read so far, a readable regular file
\* always yields a digest, and the digest is that of the file's content.
C10_ChunkingNotObservable ==
    chunk_size > 0 =>
        /\ (h_pc = "read" /\ ~h_stream.bad =>
                hasher = SubSeq(h_file.content, 1, h_stream.pos))
        /\ (h_pc = "done" /\ h_file.kind = "regular" /\ ~FailsToOpenOrRead(h_file) =>
                /\ hasher = h_file.content
                /\ h_out = Digest(HexDigest(h_file.content)))
        /\ (h_out.tag = "digest" => h_out.val = HexDigest(h_file.content))

\* C10 witness: a three-byte file hashed in chunks of two (a short last chunk).
C10_Witness ==
    /\ h_pc = "done"
    /\ chunk_size = 2
    /\ Len(h_file.content) = 3
    /\ h_out.tag = "digest"

\* C11: a finished call has failed with the error of the first condition that
\* fails (the path is missing, is not a regular file, does not open, a read
\* fails anywhere in the stream, at end-of-stream included), and returned the
\* digest of the content exactly when none fails; no digest follows a failed read.
C11_FirstFailingCondition ==
    /\ (h_pc = "done" =>
            h_out = IF h_file.kind = "missing" THEN Error("File does not exist")
                    ELSE IF h_file.kind # "regular" THEN Error("Path is not a regular file")
                    ELSE IF ~h_file.can_open THEN Error("Cannot open file")
                    ELSE IF h_file.fail_at # NoFail THEN Error("Error reading file")
                    ELSE Digest(HexDigest(h_file.content)))
    /\ (h_out.tag = "digest" => h_stream.eof /\ ~h_stream.bad)
    /\ (h_stream.bad /\ h_pc = "done" => h_out.tag = "error")

\* C18: when calculate_blake3 has returned or raised its stream is closed;
\* when calculate_blake3_batch builds and returns its mapping no worker has a
\* stream open; a worker claiming its next index, or one that has finished,
\* has closed the stream of the index before, so it has one open at most.
C18_HandlesClosed ==
    /\ (h_pc = "done" => ~h_stream.open)
    /\ (b_pc \in {"build", "returned"} =>
            \A t \in DOMAIN workers : ~workers[t].stream.open)
    /\ \A t \in DOMAIN workers :
            workers[t].pc \in {"unstarted", "claim", "open", "done"} =>
                ~workers[t].stream.open

\* C18 witness: one worker has gone through a failed read and then a complete
\* one, and the call has returned.
C18_Witness ==
    /\ b_pc = "returned"
    /\ num_threads = 1
    /\ Len(file_paths) = 2
    /\ errors[1] = "Error reading file"
    /\ results[2][2] # <<>>
    /\ ~workers[1].stream.open

\* C20: for every chunk_size, 0 included, every iteration of the read loop
\* that starts before end-of-stream consumes at least one byte or fails, and
\* the call eventually finishes, with a digest or an error.
C20_ReadLoopTerminates ==
    /\ [][h_pc = "read" /\ StreamGood(h_stream) /\ h_pc' = "read" =>
             h_stream'.pos > h_stream.pos \/ h_stream'.bad \/ h_stream'.eof]_vars
    /\ <>(h_pc = "done")

(***************************************************************************)
(* Properties of scandir_recursive.                                        *)
(***************************************************************************)
\* the entries whose FileInfo the caller received
Returned ==
    IF s_out.tag = "returned" THEN {s_out.val[i].path : i \in 1..Len(s_out.val)} ELSE {}

\* the entries named '.x' and everything beneath a directory named '.x'
HiddenSubtree == {n \in Nodes : n \in hidden \/ Ancestors(n) \cap hidden # {}}

WithinLimit(n) == max_depth = 0 \/ Level(n) <= max_depth

\* the entry can be read: its metadata queries succeed and every directory
\* above it opens
Readable(n) ==
    /\ ~StatThrows(n)
    /\ \A a \in Ancestors(n) : fault[a] \notin {"denied", "step", "status"}

ScanOfDirectory == s_pc = "done" /\ root_kind = "dir" /\ root_fault = "none"

\* the entries the loop body has run for, and those it made a FileInfo for
Visited  == {visited[i] : i \in 1..Len(visited)}
Recorded == {scan_results[i].path : i \in 1..Len(scan_results)}

\* C5 as claimed: a call that returns hands back nothing of a hidden subtree
\* without include_hidden, and every entry of it with include_hidden.
C5_AsClaimed ==
    ScanOfDirectory /\ s_out.tag = "returned" =>
        /\ (~include_hidden => Returned \cap HiddenSubtree = {})
        /\ (include_hidden => HiddenSubtree \subseteq Returned)

\* C5 amended: without include_hidden nothing of a hidden subtree is ever
\* recorded or returned; with include_hidden a hidden name excludes nothing:
\* every entry of a hidden subtree that the traversal reaches within the depth
\* limit and whose metadata can be read is recorded, and a call that returns
\* hands back every readable entry of a hidden subtree within the limit.
C5_HiddenPruned ==
    /\ (~include_hidden => (Recorded \cup Returned) \cap HiddenSubtree = {})
    /\ (include_hidden =>
            \A n \in HiddenSubtree \cap Visited :
                WithinLimit(n) /\ ~StatThrows(n) => n \in Recorded)
    /\ (include_hidden /\ s_out.tag = "returned" =>
            \A n \in HiddenSubtree : WithinLimit(n) /\ Readable(n) => n \in Returned)

\* C5 witness: a hidden top-level directory with visible entries beneath it is
\* scanned without include_hidden, and its visible sibling is returned.
C5_Witness ==
    /\ ScanOfDirectory
    /\ ~include_hidden
    /\ hidden = {1}
    /\ max_depth = 0
    /\ Returned = {2}

\* C6: with max_depth = d > 0 no record is deeper than d, every non-hidden
\* readable entry within the limit is recorded, and what lies beyond the limit
\* causes neither a diagnostic nor a raised error; with max_depth = 0 no entry
\* is left out for its depth.
C6_DepthLimit ==
    ScanOfDirectory =>
        /\ \A n \in Returned : WithinLimit(n)
        /\ \A n \in Nodes :
              WithinLimit(n) /\ Readable(n) /\ (include_hidden \/ n \notin HiddenSubtree)
                  => n \in Returned
        /\ \A i \in 1..Len(scan_errors) :
              scan_errors[i].entry # Root => WithinLimit(scan_errors[i].entry)
        /\ ((\A n \in Nodes : fault[n] = "step" => max_depth > 0 /\ Level(n) >= max_depth)
                => s_out.tag = "returned")

\* C7: a root that does not exist or is not a directory makes the call fail
\* with the matching error before any entry is iterated: no entry is visited,
\* no record and no diagnostic is produced.
C7_BadRootFailsFirst ==
    root_kind \in {"missing", "file"} =>
        /\ s_pc \in {"check", "done"}
        /\ it = End /\ visited = <<>> /\ scan_results = <<>> /\ scan_errors = <<>>
        /\ (s_pc = "done" =>
                s_out = Error(IF root_kind = "missing" THEN "Path does not exist"
                              ELSE "Path is not a directory"))

\* C7 witness: the call on a regular file has failed.
C7_Witness ==
    /\ s_pc = "done"
    /\ root_kind = "file"
    /\ s_out = Error("Path is not a directory")

\* C8: a failure on one entry (its metadata, opening it, stepping into it) is
\* contained: the call does not raise and returns every readable entry that
\* the depth limit and the hidden filter let through.
C8_EntryFailureContained ==
    ScanOfDirectory =>
        /\ s_out.tag = "returned"
        /\ \A n \in Nodes :
              WithinLimit(n) /\ Readable(n) /\ (include_hidden \/ n \notin HiddenSubtree)
                  => n \in Returned

\* C9: every diagnostic appended during the traversal is part of what the
\* caller receives, in discovery order, next to the records.
C9_DiagnosticsHandedBack ==
    s_pc = "done" /\ s_out.tag = "returned" =>
        /\ {s_out.val[i].path : i \in 1..Len(s_out.val)} =
               {scan_results[i].path : i \in 1..Len(scan_results)}
        /\ \A i \in 1..Len(scan_errors) :
              \E j \in 1..Len(s_out.val) :
                  /\ "entry" \in DOMAIN s_out.val[j]
                  /\ s_out.val[j] = scan_errors[i]

\* C15: when a fatal condition is met after some records were collected, the
\* finished call has a distinguished diagnostic for it, has raised the error
\* only after the loop was left, and the caller has the records collected
\* before it.
C15_FatalKeepsRecords ==
    /\ ((\E i \in 1..Len(scan_errors) : scan_errors[i].fatal) =>
            s_pc \in {"finish", "done"})
    /\ (s_pc = "done" /\ (\E i \in 1..Len(scan_errors) : scan_errors[i].fatal) =>
            /\ s_out.tag = "error"
            /\ Recorded \subseteq Returned)

\* C16: every record of a symbolic link has is_symlink, size 0 and the type
\* of the link itself (a link is not a directory, whatever its target); every
\* other record has the byte size of a regular file and size 0 otherwise.
C16_SymlinkRecords ==
    \A i \in 1..Len(scan_results) :
        LET r == scan_results[i]
        IN  /\ r.is_symlink = (kind[r.path] \in {"symlink_file", "symlink_dir",
                                                 "symlink_dangling",
                                                 "symlink_unexaminable"})
            /\ (r.is_symlink => r.size = 0 /\ ~r.is_directory)
            /\ (~r.is_symlink =>
                    /\ r.is_directory = (kind[r.path] = "dir")
                    /\ r.size = IF kind[r.path] = "file" THEN FileSize(r.path) ELSE 0)

\* the position of entry n in a sequence of entries or of records (0: absent)
PosIn(seq, n) ==
    IF \E i \in 1..Len(seq) : seq[i] = n
    THEN CHOOSE i \in 1..Len(seq) : seq[i] = n
    ELSE 0

RecordedPaths == [i \in 1..Len(scan_results) |-> scan_results[i].path]

\* C21 as claimed: the returned sequence has no entry twice, and the record
\* of an entry below the top level comes after a record of its parent.
C21_AsClaimed ==
    s_out.tag = "returned" =>
        LET paths == [i \in 1..Len(s_out.val) |-> s_out.val[i].path]
        IN  /\ Distinct(paths)
            /\ \A i \in 1..Len(paths) :
                  Parent(paths[i]) # Root =>
                      \E j \in 1..(i - 1) : paths[j] = Parent(paths[i])

\* C21 amended: no entry is visited or recorded twice and the returned
\* sequence is the recorded one; the parent of a recorded entry below the top
\* level was visited before it and was skipped neither as hidden nor for its
\* depth, and its record precedes the entry's unless its metadata could not
\* be read, in which case it has a diagnostic and no record.
C21_ParentVisitedFirst ==
    /\ Distinct(visited)
    /\ Distinct(RecordedPaths)
    /\ (s_out.tag = "returned" => s_out.val = scan_results)
    /\ \A i \in 1..Len(scan_results) :
          LET n == RecordedPaths[i]
              p == Parent(n)
          IN  p # Root =>
                /\ PosIn(visited, p) > 0
                /\ PosIn(visited, p) < PosIn(visited, n)
                /\ ~DepthSkip(p) /\ ~HiddenSkip(p)
                /\ IF StatThrows(p)
                   THEN /\ PosIn(RecordedPaths, p) = 0
                        /\ \E k \in 1..Len(scan_errors) : scan_errors[k] = Diagnostic(p)
                   ELSE /\ PosIn(RecordedPaths, p) > 0
                        /\ PosIn(RecordedPaths, p) < i

\* C21 witness: a returned scan of a tree whose root lists its file first:
\* the unreadable directory has no record, the file inside it has one.
C21_Witness ==
    /\ s_out.tag = "returned"
    /\ listing[Root] = <<2, 1>>
    /\ fault[1] = "stat"
    /\ PosIn(RecordedPaths, 1) = 0
    /\ PosIn(RecordedPaths, 2) > 0
    /\ PosIn(RecordedPaths, 2) < PosIn(RecordedPaths, 4)

(***************************************************************************)
(* Properties of get_file_info.                                            *)
(***************************************************************************)
\* C13: a finished call on a symbolic link to a directory has returned
\* is_symlink = true, is_directory = true and every other type flag false; a
\* finished call on a path that does not exist has failed with the not-found
\* error, with no metadata handed back.
C13_SymlinkToDirectory ==
    st_pc = "done" =>
        /\ (st_path.link /\ st_path.target = "directory" =>
                /\ st_out.tag = "info"
                /\ st_out.val.flags =
                       [is_regular_file |-> FALSE, is_directory |-> TRUE,
                        is_symlink |-> TRUE, is_block_file |-> FALSE,
                        is_character_file |-> FALSE, is_fifo |-> FALSE,
                        is_socket |-> FALSE])
        /\ (st_path.target = "missing" => st_out = Error("Path does not exist"))

\* C13 witness: the call on a symbolic link to a directory has returned.
C13_Witness ==
    /\ st_pc = "done"
    /\ st_path.link
    /\ st_path.target = "directory"
    /\ st_out.tag = "info"
    /\ st_out.val.flags.is_symlink

\* C17: of two successive calls on a file whose modification time did not
\* change, the second returns a modified time not less than the first,
\* however much time passes between the two clock samples of either call.
C17_MtimeMonotonic ==
    st_calls = 2 /\ st_pc = "done" /\ st_prev.tag = "info" /\ st_out.tag = "info" =>
        st_out.val.mtime >= st_prev.val.mtime

====
